---- MODULE Spec2Model ----
(***************************************************************************)
(* Model of src/main.py: add_page_numbers and create_page_number_pdf.      *)
(*                                                                         *)
(* Lengths are exact integers in units of 1/1016 pt, so that every value   *)
(* the program computes from the inputs below is an integer:               *)
(*   1 pt = 1016, 1 cm = 72 pt / 2.54 = 28800, 10.5 pt = 10668.            *)
(* User lengths (margins, footer height), which the program multiplies by  *)
(* reportlab's cm, are given in hundredths of a centimetre (1.75 -> 175).  *)
(* The program computes in binary floating point; the model computes the   *)
(* exact rational value.                                                   *)
(***************************************************************************)
EXTENDS Integers, Sequences, FiniteSets

\* ------------------------------------------------------------------ bounds
MaxPages == 2

\* --------------------------------------------------------- units, page sizes
\* reportlab.lib.units: inch = 72.0
inch == 72 * 1016

\* reportlab.lib.units: cm = inch / 2.54; v is in hundredths, cm(v) is v/100 * cm
cm(v) == (v * inch) \div 254

\* reportlab.lib.pagesizes: A4 = (210*mm, 297*mm), A3 = (297*mm, 420*mm)
A4 == <<cm(2100), cm(2970)>>
A3 == <<cm(2970), cm(4200)>>

\* reportlab.lib.pagesizes.landscape: the longer side becomes the width
landscape(pagesize) ==
    IF pagesize[1] < pagesize[2] THEN <<pagesize[2], pagesize[1]>> ELSE pagesize

DEFAULT_MARGINS == <<250, 250, 250, 300>>
DEFAULT_FOOTER_HEIGHT == 175
DEFAULT_START_PAGE_NUMBER == 1

\* font_size: float = 10.5 (points)
font_size == (105 * 1016) \div 10

\* ------------------------------------------------------------ input domains
\* PyPDF2 media boxes <<left, bottom, right, top>> of source pages:
\* 300x800pt, A4 portrait, A4 landscape, and a 300x350pt page whose media
\* box does not start at the origin: [100 0 400 350].
Box300x800 == <<0, 0, 300 * 1016, 800 * 1016>>
BoxA4 == <<0, 0, A4[1], A4[2]>>
BoxA4Landscape == <<0, 0, A4[2], A4[1]>>
BoxShifted == <<100 * 1016, 0, 400 * 1016, 350 * 1016>>
MediaBoxes == {Box300x800, BoxA4, BoxA4Landscape, BoxShifted}

Positions == {"top", "bottom", "left", "right", "auto"}
MarginChoices == {<<0, 0, 0, 0>>, DEFAULT_MARGINS, <<200, 200, 200, 200>>, <<0, 3000, 0, 0>>}
FooterChoices == {0, 100, DEFAULT_FOOTER_HEIGHT}
StartChoices == {0 - 1, DEFAULT_START_PAGE_NUMBER, 9}
PageSizes == {A4, A3}

\* ------------------------------------------------------------------- helpers
\* str(int): the decimal digits, most significant first, "-" before a negative
Digit(d) == CASE d = 0 -> "0" [] d = 1 -> "1" [] d = 2 -> "2" [] d = 3 -> "3"
              [] d = 4 -> "4" [] d = 5 -> "5" [] d = 6 -> "6" [] d = 7 -> "7"
              [] d = 8 -> "8" [] d = 9 -> "9"

RECURSIVE Digits(_)
Digits(n) == IF n < 10 THEN <<Digit(n)>> ELSE Append(Digits(n \div 10), Digit(n % 10))

str(n) == IF n < 0 THEN <<"-">> \o Digits(0 - n) ELSE Digits(n)

\* c.stringWidth(text, 'SimSun', font_size): SimSun draws every ASCII glyph
\* half an em wide
stringWidth(text, size) == Len(text) * (size \div 2)

\* the pages of a PDF file on disk: page k has media box boxes[k] and its own content k
SourcePages(boxes) ==
    [k \in 1..Len(boxes) |-> [mediabox |-> boxes[k], src |-> k, overlays |-> <<>>]]

\* page.mediabox.upper_right
upper_right(page) == <<page.mediabox[3], page.mediabox[4]>>

\* lines 117-122: the size of the numeral page for a source page
CurrentPageSizeFromSource(page, page_size) ==
    <<page.mediabox[3] - page.mediabox[1], page.mediabox[4] - page.mediabox[2]>>

CurrentPageSize(page, page_size) ==
    LET width == upper_right(page)[1]
        height == upper_right(page)[2]
    IN IF width > height THEN landscape(page_size) ELSE page_size

\* line 127
PageNumberOneBased(start, i) == start + i + 1

PageNumber(start, i) == start + i

\* lines 130-149: <<x_position, y_position, text_angle>> before compensation
AnchorSwappedMargins(position, size, margins, footer_height) ==
    LET xmid == (size[1] - cm(margins[4]) - cm(margins[2])) \div 2 + cm(margins[2])
        ymid == (size[2] - cm(margins[1]) - cm(margins[3])) \div 2 + cm(margins[3])
    IN CASE position = "top" -> <<xmid, size[2] - cm(footer_height), 0>>
         [] position = "bottom" -> <<xmid, cm(footer_height), 0>>
         [] position = "left" -> <<cm(footer_height), ymid, 270>>
         [] position = "right" -> <<size[1] - cm(footer_height), ymid, 90>>
         [] OTHER -> <<xmid, cm(footer_height), 0>>

Anchor(position, size, margins, footer_height) ==
    LET xmid == (size[1] - cm(margins[4]) - cm(margins[2])) \div 2 + cm(margins[4])
        ymid == (size[2] - cm(margins[1]) - cm(margins[3])) \div 2 + cm(margins[1])
    IN CASE position = "top" -> <<xmid, size[2] - cm(footer_height), 0>>
         [] position = "bottom" -> <<xmid, cm(footer_height), 0>>
         [] position = "left" -> <<cm(footer_height), ymid, 270>>
         [] position = "right" -> <<size[1] - cm(footer_height), ymid, 90>>
         [] OTHER -> <<xmid, cm(footer_height), 0>>

\* lines 159-160
CenteredXAlways(position, x, width) == x - width \div 2

CenteredX(position, x, width) ==
    IF position \in {"top", "bottom", "auto"} THEN x - width \div 2 ELSE x

\* range(num_pages) of the rendering loop, line 115
RenderLoopDoneEarly(i, n) == i >= n - 1

RenderLoopDone(i, n) == i >= n

\* range(num_pages) of the merge loop, line 187
MergeLoopDoneEarly(i, n) == i >= n - 1

MergeLoopDone(i, n) == i >= n

\* temp_reader.pages[i], line 192 (0-based i)
OverlayIndexFirst(i) == 1

OverlayIndex(i) == i + 1

\* PageObject.merge_page: the overlay's marks are painted after the page's own
merge_page(page, overlay) == [page EXCEPT !.overlays = @ \o overlay.marks]

\* lines 189-195: reader.pages[i] is the reader's own page object, merged in place
MergedOnCopy(pages, i, overlay) == pages

MergedInPlace(pages, i, overlay) == [pages EXCEPT ![i + 1] = merge_page(@, overlay)]

\* lines 107-110: what follows the font registration
AfterRegisterFallback(exists) == "render"

AfterRegister(exists) == IF exists THEN "render" ELSE "failed"

\* --------------------------------------------------------------------- state
VARIABLES
    pdf_file,          \* the source PDF on disk: sequence of pages
    margins, footer_height, start_page_number, page_size, position, \* arguments
    font_exists,       \* whether the SimSun font file can be found
    pc,                \* position in add_page_numbers / create_page_number_pdf
    reader,            \* reader.pages of add_page_numbers (line 179)
    writer,            \* pages added to the PdfWriter
    num_pages,
    canvas,            \* pages shown on the reportlab canvas c
    temp_reader,       \* temp_reader.pages (line 185)
    i,                 \* loop index of create_page_number_pdf
    current_page_size, page_number, x_position, y_position, text_angle, text_width,
    j,                 \* loop index of add_page_numbers
    page,              \* the page held by add_page_numbers between merge and add
    output,            \* the output file: opened or not, and its pages
    log                \* the render and merge events so far, in order

args == <<pdf_file, margins, footer_height, start_page_number, page_size, position, font_exists>>
locals == <<current_page_size, page_number, x_position, y_position, text_angle, text_width>>
vars == <<args, pc, reader, writer, num_pages, canvas, temp_reader, i, locals, j, page, output, log>>

BoxSeqs == UNION {[1..n -> MediaBoxes] : n \in 0..MaxPages}

Init ==
    /\ pdf_file \in {SourcePages(b) : b \in BoxSeqs}
    /\ margins \in MarginChoices
    /\ footer_height \in FooterChoices
    /\ start_page_number \in StartChoices
    /\ page_size \in PageSizes
    /\ position \in Positions
    /\ font_exists \in BOOLEAN
    /\ pc = "open"
    /\ reader = <<>>
    /\ writer = <<>>
    /\ num_pages = 0
    /\ canvas = <<>>
    /\ temp_reader = <<>>
    /\ i = 0
    /\ current_page_size = <<0, 0>>
    /\ page_number = 0
    /\ x_position = 0
    /\ y_position = 0
    /\ text_angle = 0
    /\ text_width = 0
    /\ j = 0
    /\ page = <<>>
    /\ output = [opened |-> FALSE, pages |-> <<>>]
    /\ log = <<>>

\* ------------------------------------------------------------------- actions
\* add_page_numbers, lines 179-181
OpenSource ==
    /\ pc = "open"
    /\ reader' = pdf_file
    /\ writer' = <<>>
    /\ num_pages' = Len(pdf_file)
    /\ pc' = "register"
    /\ UNCHANGED <<args, canvas, temp_reader, i, locals, j, page, output, log>>

\* create_page_number_pdf, lines 103-113: new canvas, font registration
RegisterFont ==
    /\ pc = "register"
    /\ canvas' = <<>>
    /\ i' = 0
    /\ pc' = AfterRegister(font_exists)
    /\ UNCHANGED <<args, reader, writer, num_pages, temp_reader, locals, j, page, output, log>>

\* lines 115-127: orientation of source page i, page size, page number
SelectPageSize ==
    /\ pc = "render"
    /\ ~RenderLoopDone(i, num_pages)
    /\ current_page_size' = CurrentPageSize(pdf_file[i + 1], page_size)
    /\ page_number' = PageNumber(start_page_number, i)
    /\ pc' = "anchor"
    /\ UNCHANGED <<args, reader, writer, num_pages, canvas, temp_reader, i,
                   x_position, y_position, text_angle, text_width, j, page, output, log>>

\* lines 130-149
ResolveAnchor ==
    /\ pc = "anchor"
    /\ LET a == Anchor(position, current_page_size, margins, footer_height)
       IN /\ x_position' = a[1]
          /\ y_position' = a[2]
          /\ text_angle' = a[3]
    /\ pc' = "offset"
    /\ UNCHANGED <<args, reader, writer, num_pages, canvas, temp_reader, i,
                   current_page_size, page_number, text_width, j, page, output, log>>

\* lines 152-153
Compensate ==
    /\ pc = "offset"
    /\ x_position' = x_position + cm(5)
    /\ y_position' = y_position + cm(15)
    /\ pc' = "measure"
    /\ UNCHANGED <<args, reader, writer, num_pages, canvas, temp_reader, i,
                   current_page_size, page_number, text_angle, text_width, j, page, output, log>>

\* lines 156-160
CenterText ==
    /\ pc = "measure"
    /\ text_width' = stringWidth(str(page_number), font_size)
    /\ x_position' = CenteredX(position, x_position, text_width')
    /\ pc' = "draw"
    /\ UNCHANGED <<args, reader, writer, num_pages, canvas, temp_reader, i,
                   current_page_size, page_number, y_position, text_angle, j, page, output, log>>

\* lines 163-169: draw the numeral at the translated, rotated origin; showPage
DrawPage ==
    /\ pc = "draw"
    /\ canvas' = Append(canvas,
                   [size |-> current_page_size,
                    marks |-> <<[font |-> "SimSun", text |-> str(page_number),
                                 x |-> x_position, y |-> y_position,
                                 angle |-> text_angle]>>])
    /\ log' = Append(log, <<"render", i>>)
    /\ i' = i + 1
    /\ pc' = "render"
    /\ UNCHANGED <<args, reader, writer, num_pages, temp_reader, locals, j, page, output>>

\* lines 171-173 and 185: save the canvas, read it back as temp_reader
SaveCanvas ==
    /\ pc = "render"
    /\ RenderLoopDone(i, num_pages)
    /\ temp_reader' = canvas
    /\ j' = 0
    /\ pc' = "merge"
    /\ UNCHANGED <<args, reader, writer, num_pages, canvas, i, locals, page, output, log>>

\* lines 187-195: merge numeral page j onto reader.pages[j];
\* an index past the end of temp_reader.pages raises IndexError
MergePage ==
    /\ pc = "merge"
    /\ ~MergeLoopDone(j, num_pages)
    /\ IF OverlayIndex(j) \in DOMAIN temp_reader
         THEN /\ reader' = MergedInPlace(reader, j, temp_reader[OverlayIndex(j)])
              /\ page' = merge_page(reader[j + 1], temp_reader[OverlayIndex(j)])
              /\ log' = Append(log, <<"merge", j>>)
              /\ pc' = "add"
         ELSE /\ pc' = "failed"
              /\ UNCHANGED <<reader, page, log>>
    /\ UNCHANGED <<args, writer, num_pages, canvas, temp_reader, i, locals, j, output>>

\* line 198
AddPage ==
    /\ pc = "add"
    /\ writer' = Append(writer, page)
    /\ j' = j + 1
    /\ pc' = "merge"
    /\ UNCHANGED <<args, reader, num_pages, canvas, temp_reader, i, locals, page, output, log>>

\* lines 201-204
WriteOutput ==
    /\ pc = "merge"
    /\ MergeLoopDone(j, num_pages)
    /\ output' = [opened |-> TRUE, pages |-> writer]
    /\ pc' = "done"
    /\ UNCHANGED <<args, reader, writer, num_pages, canvas, temp_reader, i, locals, j, page, log>>

Next ==
    \/ OpenSource
    \/ RegisterFont
    \/ SelectPageSize
    \/ ResolveAnchor
    \/ Compensate
    \/ CenterText
    \/ DrawPage
    \/ SaveCanvas
    \/ MergePage
    \/ AddPage
    \/ WriteOutput

Spec == Init /\ [][Next]_vars

\* ---------------------------------------------------------------- properties
\* the integer a drawn decimal numeral denotes
DigitValue(ch) == CASE ch = "0" -> 0 [] ch = "1" -> 1 [] ch = "2" -> 2 [] ch = "3" -> 3
                    [] ch = "4" -> 4 [] ch = "5" -> 5 [] ch = "6" -> 6 [] ch = "7" -> 7
                    [] ch = "8" -> 8 [] ch = "9" -> 9

RECURSIVE UnsignedValue(_)
UnsignedValue(text) ==
    IF text = <<>> THEN 0
    ELSE 10 * UnsignedValue(SubSeq(text, 1, Len(text) - 1)) + DigitValue(text[Len(text)])

NumeralValue(text) ==
    IF text[1] = "-" THEN 0 - UnsignedValue(Tail(text)) ELSE UnsignedValue(text)

\* the numbers drawn so far, one per numeral page, in page order
DrawnNumbers == [k \in 1..Len(canvas) |-> NumeralValue(canvas[k].marks[1].text)]

\* C1: every numeral page holds exactly one numeral, and the numeral on page
\* i (0-based) denotes start_page_number + i; so the drawn numbers increase
\* by exactly 1 from page to page, without duplicates or gaps.
C1_SequentialNumbers ==
    /\ \A k \in 1..Len(canvas) :
          /\ Len(canvas[k].marks) = 1
          /\ DrawnNumbers[k] = start_page_number + (k - 1)
    /\ \A k \in 1..(Len(canvas) - 1) : DrawnNumbers[k + 1] = DrawnNumbers[k] + 1
    /\ (pc \in {"merge", "add", "done"}) => Len(canvas) = Len(pdf_file)

C1_Witness ==
    /\ pc = "done"
    /\ Len(canvas) = 2
    /\ start_page_number = 9
    /\ canvas[1].marks[1].text = <<"9">>
    /\ canvas[2].marks[1].text = <<"1", "0">>

\* C2: when add_page_numbers has completed, the output document has as many
\* pages as the source document.
C2_SamePageCount ==
    pc = "done" => /\ output.opened
                   /\ Len(output.pages) = Len(pdf_file)

C2_Witness == pc = "done" /\ Len(pdf_file) = 1 /\ Len(output.pages) = 1

\* the merged page the program builds from source page k and numeral page k
ExpectedMerged(k) ==
    [mediabox |-> pdf_file[k].mediabox, src |-> pdf_file[k].src,
     overlays |-> canvas[k].marks]

\* C3: at every point of the run the writer holds exactly the merged pages
\* 0..j-1 in source order, and output page k is source page k under numeral
\* page k, whose numeral is start_page_number + k.
C3_OutputInSourceOrder ==
    /\ (pc \in {"merge", "add", "done"}) => Len(writer) = j
    /\ Len(writer) <= Len(pdf_file)
    /\ \A k \in 1..Len(writer) :
          /\ writer[k] = ExpectedMerged(k)
          /\ writer[k].src = k
          /\ Len(writer[k].overlays) = 1
          /\ NumeralValue(writer[k].overlays[1].text) = start_page_number + (k - 1)
    /\ (pc = "add") => page = ExpectedMerged(j + 1)
    /\ (pc = "done") => output.pages = writer

C3_Witness ==
    /\ pc = "merge"
    /\ Len(writer) = 2
    /\ writer[1].mediabox # writer[2].mediabox
    /\ writer[1].overlays # writer[2].overlays

\* source page k (1-based) has been merged by add_page_numbers
Merged(k) == (pc \in {"merge", "done"} /\ k <= j) \/ (pc = "add" /\ k <= j + 1)

\* C4 (as stated): the in-memory source pages reader.pages are never changed:
\* every page of the reader has the content it was read with.
C4_ReaderPagesUntouched ==
    \A k \in 1..Len(reader) : reader[k] = pdf_file[k]

\* C4 (amended): merge_page composites in place: once page k is merged, the
\* reader's own page k carries numeral page k's marks on top of its original
\* content and is the very page handed to the writer; pages not yet merged
\* are as read; the media box and original content of every page are kept.
C4_MergedInPlace ==
    /\ \A k \in 1..Len(reader) :
          /\ reader[k].src = pdf_file[k].src
          /\ reader[k].mediabox = pdf_file[k].mediabox
          /\ reader[k].overlays = IF Merged(k) THEN canvas[k].marks ELSE <<>>
    /\ \A k \in 1..Len(writer) : writer[k] = reader[k]
    /\ (pc = "add") => page = reader[j + 1]

C4_Witness ==
    /\ pc = "add"
    /\ j = 0
    /\ Len(reader) = 2
    /\ reader[1].overlays = canvas[1].marks
    /\ reader[1] # pdf_file[1]
    /\ reader[2] = pdf_file[2]

\* C5: when the font file cannot be found the run fails at the registration:
\* no numeral page is drawn, no page is merged or added, the output file is
\* never opened, and the run never gets past the registration; and every
\* numeral ever drawn is in the registered font SimSun (no fallback font).
C5_MissingFontAborts ==
    /\ (~font_exists) =>
          /\ pc \in {"open", "register", "failed"}
          /\ canvas = <<>>
          /\ temp_reader = <<>>
          /\ log = <<>>
          /\ writer = <<>>
          /\ \A k \in 1..Len(reader) : reader[k] = pdf_file[k]
          /\ output = [opened |-> FALSE, pages |-> <<>>]
    /\ \A k \in 1..Len(canvas) : \A m \in 1..Len(canvas[k].marks) :
          font_exists /\ canvas[k].marks[m].font = "SimSun"

C5_Witness == pc = "failed" /\ ~font_exists /\ num_pages = 2

\* the anchor of the table of the geometry resolver, for a page W x H
TableAnchor(W, H) ==
    LET top == cm(margins[1])
        right == cm(margins[2])
        bottom == cm(margins[3])
        left == cm(margins[4])
        bandHeight == cm(footer_height)
    IN CASE position = "top" -> <<(W - left - right) \div 2 + left, H - bandHeight, 0>>
         [] position \in {"bottom", "auto"} -> <<(W - left - right) \div 2 + left, bandHeight, 0>>
         [] position = "left" -> <<bandHeight, (H - top - bottom) \div 2 + top, 270>>
         [] position = "right" -> <<W - bandHeight, (H - top - bottom) \div 2 + top, 90>>

\* C6: with W x H the size of the numeral page, the anchor before the
\* compensation is the table's; after it, 0.05cm (1440) and 0.15cm (4320) are
\* added to x and y for every position. For bottom with zero margins and band
\* height 0, y is 0 before and 4320/1016 = 4.2519pt after; margins larger
\* than the page are not clamped (a right margin of 30cm on A4 gives x < 0).
C6_AnchorTable ==
    LET t == TableAnchor(current_page_size[1], current_page_size[2])
    IN /\ (pc = "offset") =>
             /\ <<x_position, y_position, text_angle>> = t
             /\ (position = "bottom" /\ margins = <<0, 0, 0, 0>> /\ footer_height = 0)
                   => y_position = 0
             /\ (position \in {"top", "bottom", "auto"} /\ margins = <<0, 3000, 0, 0>>
                 /\ current_page_size = A4) => x_position = 0 - 129600
       /\ (pc = "measure") =>
             /\ <<x_position, y_position, text_angle>> = <<t[1] + 1440, t[2] + 4320, t[3]>>
             /\ (position = "bottom" /\ margins = <<0, 0, 0, 0>> /\ footer_height = 0)
                   => y_position = 4320

C6_Witness ==
    /\ pc = "measure"
    /\ position = "bottom"
    /\ margins = <<0, 0, 0, 0>>
    /\ footer_height = 0
    /\ current_page_size = A4
    /\ y_position = 4320

\* width and height of source page k
SourceWidth(k) == pdf_file[k].mediabox[3] - pdf_file[k].mediabox[1]
SourceHeight(k) == pdf_file[k].mediabox[4] - pdf_file[k].mediabox[2]

\* C7 (as stated): the anchor is computed from the source page's own width
\* and height: left, margins 2cm, band 1cm, source page 300x800pt gives
\* x = 1cm, y = (800pt - 2cm - 2cm)/2 + 2cm, rotation 270.
C7_AnchorFromSourcePage ==
    (pc = "offset") =>
        /\ <<x_position, y_position, text_angle>>
              = TableAnchor(SourceWidth(i + 1), SourceHeight(i + 1))
        /\ (position = "left" /\ margins = <<200, 200, 200, 200>> /\ footer_height = 100
            /\ pdf_file[i + 1].mediabox = Box300x800)
              => <<x_position, y_position, text_angle>>
                    = <<28800, (800 * 1016 - 57600 - 57600) \div 2 + 57600, 270>>

\* C7 (amended): the anchor is computed from the numeral page's size, which
\* is the nominal page size, turned to landscape when the source page's upper
\* right corner has x > y; the source page's dimensions enter in no other
\* way. Left, margins 2cm, band 1cm, nominal A4, source page 300x800pt gives
\* x = 1cm, y = (A4 height - 2cm - 2cm)/2 + 2cm, rotation 270.
C7_AnchorFromNominalSize ==
    (pc = "offset") =>
        LET box == pdf_file[i + 1].mediabox
            size == IF box[3] > box[4]
                      THEN <<page_size[2], page_size[1]>>
                      ELSE page_size
        IN /\ current_page_size = size
           /\ <<x_position, y_position, text_angle>> = TableAnchor(size[1], size[2])
           /\ (position = "left" /\ margins = <<200, 200, 200, 200>> /\ footer_height = 100
               /\ box = Box300x800 /\ page_size = A4)
                 => <<x_position, y_position, text_angle>>
                       = <<28800, (855360 - 57600 - 57600) \div 2 + 57600, 270>>

C7_Witness ==
    /\ pc = "offset"
    /\ position = "left"
    /\ margins = <<200, 200, 200, 200>>
    /\ footer_height = 100
    /\ page_size = A4
    /\ pdf_file[i + 1].mediabox = Box300x800
    /\ y_position = 427680

\* C8: the numeral page of source page k is the landscape variant of the
\* nominal size (wider than tall) when the source page is wider than tall,
\* and the nominal portrait size otherwise, whatever the other pages are.
C8_OrientationFromOwnSize ==
    \A k \in 1..Len(canvas) :
        IF SourceWidth(k) > SourceHeight(k)
          THEN /\ canvas[k].size = <<page_size[2], page_size[1]>>
               /\ canvas[k].size[1] > canvas[k].size[2]
          ELSE canvas[k].size = page_size

\* positions in the log of the render and the merge of page n (0 when absent)
LogIndex(kind, n) ==
    IF \E p \in 1..Len(log) : log[p] = <<kind, n>>
      THEN CHOOSE p \in 1..Len(log) : log[p] = <<kind, n>>
      ELSE 0

\* C9 (as stated): the composite of page n happens before the render of
\* page n+1.
C9_CompositeBeforeNextRender ==
    \A n \in 0..(Len(pdf_file) - 2) :
        LogIndex("render", n + 1) # 0 =>
            /\ LogIndex("merge", n) # 0
            /\ LogIndex("merge", n) < LogIndex("render", n + 1)

\* C9 (amended): the numeral pages of all source pages are rendered first,
\* in page order, each finished before the next begins; only then are the
\* pages composited, in page order. So the render of page n precedes the
\* composite of page n, and every composite follows every render.
C9_AllRendersBeforeComposites ==
    LET r == Len(canvas)
        m == Len(log) - r
    IN /\ m >= 0
       /\ \A p \in 1..r : log[p] = <<"render", p - 1>>
       /\ \A p \in 1..m : log[r + p] = <<"merge", p - 1>>
       /\ m > 0 => r = Len(pdf_file)
       /\ m <= r
       /\ (pc \in {"anchor", "offset", "measure", "draw"}) => (r = i /\ m = 0)
       /\ (pc = "done") => m = Len(pdf_file)

C9_Witness ==
    /\ pc = "add"
    /\ log = <<<<"render", 0>>, <<"render", 1>>, <<"merge", 0>>>>

\* C10: the numeral is drawn at the compensated anchor, moved left by half
\* the measured width of its text for top, bottom and auto, and not moved for
\* left and right.
C10_CenteredDraw ==
    /\ (pc = "draw") =>
          LET t == TableAnchor(current_page_size[1], current_page_size[2])
          IN /\ text_width = 5334 * Len(str(page_number))
             /\ y_position = t[2] + 4320
             /\ (position \in {"top", "bottom", "auto"})
                   => 2 * x_position = 2 * (t[1] + 1440) - text_width
             /\ (position \in {"left", "right"}) => x_position = t[1] + 1440
    /\ \A k \in 1..Len(canvas) :
          LET mark == canvas[k].marks[1]
              W == canvas[k].size[1]
              H == canvas[k].size[2]
              digits == Len(mark.text)
              left == 288 * margins[4]
              right == 288 * margins[2]
              top == 288 * margins[1]
              bottom == 288 * margins[3]
          IN /\ (position \in {"top", "bottom", "auto"})
                   => 2 * mark.x = (W - left - right) + 2 * left + 2 * 1440 - digits * 5334
             /\ (position = "left") => mark.x = 288 * footer_height + 1440
             /\ (position = "right") => mark.x = W - 288 * footer_height + 1440
             /\ (position \in {"left", "right"})
                   => 2 * mark.y = (H - top - bottom) + 2 * top + 2 * 4320
             /\ mark.angle = CASE position = "left" -> 270
                               [] position = "right" -> 90
                               [] OTHER -> 0

C10_Witness ==
    /\ pc = "render"
    /\ Len(canvas) = 2
    /\ position = "auto"
    /\ Len(canvas[2].marks[1].text) = 2
    /\ canvas[1].size = canvas[2].size
    /\ canvas[2].marks[1].x = canvas[1].marks[1].x - 2667

====
